---- MODULE Spec2Model ----
(***************************************************************************)
(* A model of EtwLog::MiniLog (biocomp/etw_example): the RAII triple       *)
(* Provider / Session / EnabledProvider owned by MiniLog::Impl, the        *)
(* session start with its stop-and-retry on ERROR_ALREADY_EXISTS, the      *)
(* EventWrite emission path, and the consumer's ReadRecords.               *)
(*                                                                         *)
(* Two builds of Impl exist in the repository:                             *)
(*   "registerFirst"  src/Log/MiniEtwLog.h   members m_providerId,         *)
(*                    m_provider, m_session, m_enabledProvider             *)
(*   "enableFirst"    src/unnamed/part_000   members m_sessionId,          *)
(*                    m_providerId, m_session, m_enabledProvider,          *)
(*                    m_provider                                           *)
(* C++ constructs members in declaration order and destroys them in the    *)
(* reverse order, both on normal destruction and when a constructor        *)
(* throws (only the members already constructed are destroyed).            *)
(*                                                                         *)
(* The Windows tracing calls are the environment: each call returns one of *)
(* the result codes the call can produce in the platform state it is made  *)
(* in, and the model keeps the platform state the calls act on (live       *)
(* sessions, live registrations, log files).  The program is single        *)
(* threaded: `cur` is the facade whose constructor or destructor is        *)
(* running, 0 when none is.                                                *)
(***************************************************************************)
EXTENDS Integers, Sequences, FiniteSets, TLC

VARIABLES
    variant,        \* which build of Impl: "registerFirst" or "enableFirst"
    ndebug,         \* the build is known to compile its asserts away (NDEBUG)
    pc,             \* pc[i]: where facade i's constructor / destructor stands
    cur,            \* the facade whose constructor or destructor is running
    sessionName,    \* sessionName[i]: constructor argument
    outputFolder,   \* outputFolder[i]: constructor argument
    providerId,     \* m_providerId
    sessionId,      \* m_sessionId (enableFirst build only)
    regHandle,      \* m_provider.Handle
    Handle,         \* m_session.Handle
    m_properties,   \* m_session.m_properties
    members,        \* members[i]: the constructed members, in construction order
    thrown,         \* thrown[i]: the std::system_error that left the constructor
    raised,         \* raised[i]: the std::system_error that left the last operator()
    calls,          \* calls[i]: the platform calls facade i issued, in order
    sessionCap,     \* platform: its cap on concurrently live sessions
    sessions,       \* platform: live sessions, by TRACEHANDLE
    registrations,  \* platform: live registrations, REGHANDLE -> provider GUID
    files,          \* platform: files[folder] = records of folder\log.etl
    nextHandle,     \* platform: next handle value
    nextGuid,       \* platform: next GUID CoCreateGuid hands out
    faults,         \* platform: how many calls it has refused so far
    verified,       \* the last direct call of EtwLog::VerifyHResult, its outcome
    block,          \* an EventTracePropertiesWithBuffers built and mutated directly
    lifetime,       \* lifetime[o]: whether MiniLog object o exists (SpecMove)
    m_impl,         \* m_impl[o]: the Impl object o owns (nullptr: none)
    undefinedBehaviour  \* the operation that dereferenced an empty m_impl

vars == <<variant, ndebug, sessionCap, pc, cur, sessionName, outputFolder,
          providerId, sessionId, regHandle, Handle, m_properties, members,
          thrown, raised, calls, sessions, registrations, files, nextHandle,
          nextGuid, faults, verified, block, lifetime, m_impl,
          undefinedBehaviour>>

\* What no step of an Impl changes: the build, the platform's cap, the
\* record of direct VerifyHResult calls, the directly built block, and which
\* MiniLog object owns which Impl.
untouched == <<variant, sessionCap, verified, block, lifetime, m_impl,
               undefinedBehaviour>>

(***************************************************************************)
(* Bounds                                                                  *)
(***************************************************************************)
NumFacades == 2
MaxEmits == 2
MaxFaults == 3
MaxSessionCap == 2

Facades == 1..NumFacades

\* MiniLog objects when moves are followed: object i of Facades is made by
\* MiniLog::MiniLog(sessionName, outputFolder, bufferSize) and first owns
\* Impl i; the others are made by the move constructor.
NumMovers == 1
Objects == 1..(NumFacades + NumMovers)
Movers == Objects \ Facades

\* std::unique_ptr<Impl>{}: the pointer of an m_impl that owns nothing.
nullptr == 0

NoUndefinedBehaviour == [op |-> "none"]
LongName == "Mini logger (257 characters)"
Names == {"Mini logger", "Mini logger0", LongName}
Folders == {"out", "out0"}
NoName == "nullptr"
LeakedFolder == "stale"

\* Names and folders are interchangeable: the leaked session, when there is
\* one, has the first name, and the first facade writes into the first folder.
LeakedNames == {"Mini logger"}
FoldersFor(i) == IF i = 1 THEN {"out"} ELSE Folders

(***************************************************************************)
(* Result codes                                                            *)
(***************************************************************************)
ERROR_SUCCESS == 0
ERROR_ACCESS_DENIED == 5
ERROR_SHARING_VIOLATION == 32
ERROR_ALREADY_EXISTS == 183
ERROR_WMI_INSTANCE_NOT_FOUND == 4201

EVENT_CONTROL_CODE_DISABLE_PROVIDER == 0
EVENT_CONTROL_CODE_ENABLE_PROVIDER == 1

ERROR_BAD_LENGTH == 24
ERROR_NO_SYSTEM_RESOURCES == 1450

\* std::extent<decltype(m_properties.SessionName)>::value
SessionNameCapacity == 256

\* strlen(sessionName)
strlen(n) ==
    CASE n = "Mini logger" -> 11
      [] n = "Mini logger0" -> 12
      [] n = LongName -> 257

\* The provider identity of the trace file's own header records.
EventTraceGuid == 0

\* A size_t of the 64-bit build, held as its high and low 32-bit halves
\* (hi * 2^32 + lo).
SizeT(hi, lo) == [hi |-> hi, lo |-> lo]

\* static_cast<ULONG>(x) of a size_t x: the low 32 bits.
ULONG(x) == SizeT(0, x.lo)

\* std::span<const std::byte>: a pointer and a size.  Memory is not modelled
\* byte by byte: two spans hold the same bytes when they start at the same
\* address and have the same size (or both are empty).
Span(base, size) == [base |-> base, size |-> size]
NoSpan == Span(0, SizeT(0, 0))
Payloads == {Span(1, SizeT(0, 12)), Span(2, SizeT(1, 5))}

SameBytes(a, b) ==
    a.size = b.size /\ (a.size = SizeT(0, 0) \/ a.base = b.base)

(***************************************************************************)
(* The program                                                             *)
(***************************************************************************)

\* Mutant of MemberOrder: the provider declared first in every build.
MemberOrderProviderFirst(v) ==
    <<"m_provider", "m_session", "m_enabledProvider">>

\* Mutant of MemberOrder: the provider declared last in every build.
MemberOrderProviderLast(v) ==
    <<"m_session", "m_enabledProvider", "m_provider">>

\* The members of Impl that own a platform resource, in declaration order.
MemberOrder(v) ==
    IF v = "registerFirst"
    THEN <<"m_provider", "m_session", "m_enabledProvider">>
    ELSE <<"m_session", "m_enabledProvider", "m_provider">>

\* The identities Impl declares before those members, in declaration order.
IdentityOrder(v) ==
    IF v = "registerFirst"
    THEN <<"m_providerId">>
    ELSE <<"m_sessionId", "m_providerId">>

\* Mutant of StageOf: no build creates the output folder.
StageOfWithoutDirectories(v, m) == IF m = "m_session" THEN "StartTraceA" ELSE m

\* Where the construction of member m begins.  The registerFirst build
\* evaluates MakeDirectories(outputFolder) as an argument of m_session.
StageOf(v, m) ==
    IF m = "m_session"
    THEN (IF v = "registerFirst" THEN "MakeDirectories" ELSE "StartTraceA")
    ELSE m

IndexIn(seq, x) == CHOOSE k \in 1..Len(seq) : seq[k] = x

\* The stage that follows the complete construction of member (or identity) m.
NextStage(v, m) ==
    LET all == IdentityOrder(v) \o MemberOrder(v)
        k == IndexIn(all, m)
    IN  IF k = Len(all) THEN "ready" ELSE StageOf(v, all[k + 1])

\* Mutant of VerifyHResult: ERROR_ALREADY_EXISTS passes as well.
VerifyHResultLenient(hresult, expectedGoodResult) ==
    hresult = expectedGoodResult \/ hresult = ERROR_ALREADY_EXISTS

\* Mutant of VerifyHResult: no result ever throws.
VerifyHResultIgnored(hresult, expectedGoodResult) == TRUE

\* VerifyHResult(hresult, additionalInfo, expectedGoodResult) returns
\* normally (TRUE) or throws std::system_error{hresult} (FALSE).
VerifyHResult(hresult, expectedGoodResult) == hresult = expectedGoodResult

\* Mutant of ShouldRetry: a loop, every ERROR_ALREADY_EXISTS stops and retries.
ShouldRetryAgain(stage, result) == result = ERROR_ALREADY_EXISTS

\* Mutant of ShouldRetry: no retry at all.
ShouldRetryNever(stage, result) == FALSE

\* Mutant of ShouldRetry: every failed first start stops and retries.
ShouldRetryOnAnyFailure(stage, result) ==
    stage = "StartTraceA" /\ result # ERROR_SUCCESS

\* Session::Session: "If session is already present, close it and restart."
\* An `if`, not a loop: only the result of the first start is tested.
ShouldRetry(stage, result) ==
    stage = "StartTraceA" /\ result = ERROR_ALREADY_EXISTS

\* Mutant of SessionNameAccepted: the assert accepts every name.
SessionNameUnchecked(n) == TRUE

\* assert(strlen(sessionName) <= std::extent<decltype(SessionName)>::value)
SessionNameAccepted(n) == strlen(n) <= SessionNameCapacity

\* The name DestroySession passes to ControlTraceA: the session's name on the
\* retry path of the constructor, nullptr in the destructor.
StopName(i, stage) == IF stage = "DestroySession" THEN sessionName[i] ELSE NoName

\* Mutant of DestructorRaises: the destructors verify the result.
DestructorVerifies(result) == result # ERROR_SUCCESS

\* The destructors discard the result of their platform call.
DestructorRaises(result) == FALSE

\* EventDataDescCreate(&d, message.data(), static_cast<ULONG>(message.size()))
EventDataDescCreate(message) == Span(message.base, ULONG(message.size))

\* No direct call of VerifyHResult has been made.
NotCalled == [fn |-> "none"]

\* No EventTracePropertiesWithBuffers has been built directly.
NoBlock == [state |-> "none"]

\* std::system_error{error, additionalInfo}
SystemError(code, what) == [code |-> code, what |-> what]

NoError == SystemError(ERROR_SUCCESS, "none")

\* A platform call: its handle, name, GUID and control code arguments, the
\* EVENT_DATA_DESCRIPTORs it is handed (UserData, UserDataCount of them) and
\* its result.  message is the span the caller of operator() passed.
Call(op, h, n, g, c, d, r) ==
    [op |-> op, handle |-> h, name |-> n, guid |-> g, code |-> c,
     data |-> d, message |-> NoSpan, properties |-> NoBlock, res |-> r]

Logged(i, c) == [calls EXCEPT ![i] = Append(@, c)]

(***************************************************************************)
(* Controllers::EventTracePropertiesWithBuffers: the fields of             *)
(* EVENT_TRACE_PROPERTIES the constructor sets, and the bytes of the two   *)
(* trailing character arrays.                                              *)
(***************************************************************************)

\* A string or a character array is held as its bytes in runs: count bytes of
\* the same value each, no two neighbouring runs of the same value, no empty
\* run.  Size is the number of bytes.
Run(byte, count) == [byte |-> byte, count |-> count]

Runs == Seq([byte : Nat, count : Nat])

Size(a) ==
    LET size[s \in Runs] ==
            IF s = <<>> THEN 0 ELSE Head(s).count + size[Tail(s)]
    IN  size[a]

\* The first n bytes of a.
Take(a, n) ==
    LET take[s \in Runs, k \in Int] ==
            IF k <= 0 \/ s = <<>> THEN <<>>
            ELSE IF Head(s).count <= k
                 THEN <<Head(s)>> \o take[Tail(s), k - Head(s).count]
                 ELSE <<Run(Head(s).byte, k)>>
    IN  take[a, n]

\* The bytes of a after its first n.
Drop(a, n) ==
    LET drop[s \in Runs, k \in Int] ==
            IF k <= 0 \/ s = <<>> THEN s
            ELSE IF Head(s).count <= k
                 THEN drop[Tail(s), k - Head(s).count]
                 ELSE <<Run(Head(s).byte, Head(s).count - k)>> \o Tail(s)
    IN  drop[a, n]

\* Neighbouring runs of the same value joined.
Joined(a) ==
    LET joined[s \in Runs] ==
            IF Len(s) < 2 THEN s
            ELSE IF s[1].byte = s[2].byte
                 THEN joined[<<Run(s[1].byte, s[1].count + s[2].count)>>
                                \o SubSeq(s, 3, Len(s))]
                 ELSE <<s[1]>> \o joined[Tail(s)]
    IN  joined[a]

\* The bytes of a followed by the bytes of b.
Bytes(a, b) == Joined(a \o b)

\* std::extent<decltype(LogFilePath)>::value
LogFilePathCapacity == 1024

\* sizeof(EVENT_TRACE_PROPERTIES) in the 64-bit build.
SizeofProperties == 120

\* static constexpr std::size_t c_maxBufferSize{16384}
c_maxBufferSize == SizeT(0, 16384)

WNODE_FLAG_TRACED_GUID == "WNODE_FLAG_TRACED_GUID"

\* EVENT_TRACE_FILE_MODE_SEQUENTIAL | EVENT_TRACE_PRIVATE_LOGGER_MODE
\* | EVENT_TRACE_PRIVATE_IN_PROC
LogFileMode == {"EVENT_TRACE_FILE_MODE_SEQUENTIAL",
                "EVENT_TRACE_PRIVATE_LOGGER_MODE",
                "EVENT_TRACE_PRIVATE_IN_PROC"}

\* The members of the struct in declaration order, with their sizes.
Layout == <<[member |-> "Properties", size |-> SizeofProperties],
            [member |-> "SessionName", size |-> SessionNameCapacity],
            [member |-> "LogFilePath", size |-> LogFilePathCapacity]>>

RECURSIVE SizeUpTo(_)
SizeUpTo(n) == IF n = 0 THEN 0 ELSE SizeUpTo(n - 1) + Layout[n].size

\* offsetof(EventTracePropertiesWithBuffers, member): char arrays need no
\* padding, and sizeof(EVENT_TRACE_PROPERTIES) is a multiple of its alignment.
offsetof(member) ==
    SizeUpTo((CHOOSE n \in 1..Len(Layout) : Layout[n].member = member) - 1)

\* sizeof(EventTracePropertiesWithBuffers)
SizeofBlock == SizeUpTo(Len(Layout))

\* a < b for two size_t values.
Less(a, b) == a.hi < b.hi \/ (a.hi = b.hi /\ a.lo < b.lo)

\* std::clamp<std::size_t>(v, lo, hi)
clamp(v, lo, hi) == IF Less(v, lo) THEN lo ELSE IF Less(hi, v) THEN hi ELSE v

\* Mutant of StoredBufferSize: the conversion made before the clamp.
StoredBufferSizeCastFirst(bufferSize) ==
    clamp(ULONG(bufferSize), SizeT(0, 0), c_maxBufferSize)

\* static_cast<ULONG>(std::clamp<std::size_t>(bufferSize, 0, c_maxBufferSize))
StoredBufferSize(bufferSize) ==
    ULONG(clamp(bufferSize, SizeT(0, 0), c_maxBufferSize))

\* n zero bytes.
Zeros(n) == IF n <= 0 THEN <<>> ELSE <<Run(0, n)>>

\* A string of len bytes, each the character ch (never zero).
Path(len, ch) == IF len <= 0 THEN <<>> ELSE <<Run(ch, len)>>

\* ::ZeroMemory(this, sizeof(EventTracePropertiesWithBuffers)): every field
\* and both arrays zero.  beyond is the first byte of the memory behind the
\* block, which is not the block's to write; it is taken to be zero before.
ZeroMemory ==
    [Properties |->
        [Wnode |-> [BufferSize |-> 0, Flags |-> 0, ClientContext |-> 0,
                    Guid |-> 0],
         LoggerNameOffset |-> 0, LogFileNameOffset |-> 0,
         LogFileMode |-> {}, BufferSize |-> SizeT(0, 0)],
     SessionName |-> Zeros(SessionNameCapacity),
     LogFilePath |-> Zeros(LogFilePathCapacity),
     beyond |-> Zeros(1)]

\* The constructor up to its call of SetLogFilePath.
FieldsSet(id, bufferSize) ==
    [ZeroMemory EXCEPT
        !.Properties.Wnode.BufferSize = SizeofBlock,
        !.Properties.LoggerNameOffset = offsetof("SessionName"),
        !.Properties.LogFileNameOffset = offsetof("LogFilePath"),
        !.Properties.Wnode.Flags = WNODE_FLAG_TRACED_GUID,
        !.Properties.Wnode.ClientContext = 1,
        !.Properties.Wnode.Guid = id,
        !.Properties.LogFileMode = LogFileMode,
        !.Properties.BufferSize = StoredBufferSize(bufferSize)]

\* assert(logFilePath.size() <= std::extent<decltype(LogFilePath)>::value)
LogFilePathAccepted(logFilePath) ==
    Size(logFilePath) <= LogFilePathCapacity

\* Mutant of SetLogFilePath: the path is copied into the name array as well.
SetLogFilePathAndName(b, logFilePath) ==
    [b EXCEPT !.LogFilePath = Bytes(Take(logFilePath, LogFilePathCapacity),
                                    Drop(@, Size(logFilePath))),
              !.SessionName = Bytes(Take(logFilePath, SessionNameCapacity),
                                    Drop(@, Size(logFilePath)))]

\* std::copy(source.begin(), source.end(), std::begin(destination)), as far
\* as it stays inside the destination: the bytes after the copy are kept.
copy(source, destination) ==
    Bytes(Take(source, Size(destination)), Drop(destination, Size(source)))

\* What std::copy writes past the end of a destination of the given size.
Overrun(source, size) == Drop(source, size)

\* SetLogFilePath(logFilePath) after its assert: LogFilePath is the last
\* member, so an overrun lands behind the block.
SetLogFilePath(b, logFilePath) ==
    [b EXCEPT !.LogFilePath = copy(logFilePath, @),
              !.beyond = copy(Overrun(logFilePath, LogFilePathCapacity), @)]

\* Whether a character array holds a zero byte, and the string it then
\* holds: its bytes before the first zero byte.
Terminated(region) == \E k \in 1..Len(region) : region[k].byte = 0

CString(region) ==
    LET string[s \in Runs] ==
            IF s = <<>> \/ Head(s).byte = 0 THEN <<>>
            ELSE <<Head(s)>> \o string[Tail(s)]
    IN  string[region]

\* The bytes of a string given by its character codes.
Str(chars) == Joined([k \in 1..Len(chars) |-> Run(chars[k], 1)])

\* The bufferSize every facade is constructed with (the tests pass 4), and
\* the one a session left behind by an earlier process was started with.
RequestedBufferSize == SizeT(0, 4)
LeakedBufferSize == SizeT(0, 64)

\* std::string{outputFolder} + "\\log.etl"
LogFileName(f) ==
    Bytes(Str(CASE f = "out" -> <<111, 117, 116>>
                [] f = "out0" -> <<111, 117, 116, 48>>
                [] f = LeakedFolder -> <<115, 116, 97, 108, 101>>),
          Str(<<92, 108, 111, 103, 46, 101, 116, 108>>))

\* The folder of the log file a block names.
FolderOf(b) ==
    CHOOSE f \in Folders \cup {LeakedFolder} :
        LogFileName(f) = CString(b.LogFilePath)

\* The bytes of a session name.
SessionNameBytes(n) ==
    LET base == Str(<<77, 105, 110, 105, 32, 108, 111, 103, 103, 101, 114>>)
    IN  CASE n = "Mini logger" -> base
          [] n = "Mini logger0" -> Bytes(base, Str(<<48>>))
          [] n = LongName -> Bytes(base, Path(strlen(LongName) - 11, 48))

(***************************************************************************)
(* The platform                                                            *)
(***************************************************************************)

\* A string stored with its terminator at the start of a character array.
Stored(string, array) == copy(Bytes(string, Zeros(1)), array)

\* The block after a successful StartTraceA: the platform has copied the
\* session name to LoggerNameOffset.
Started(b, n) == [b EXCEPT !.SessionName = Stored(SessionNameBytes(n), @)]
LiveHandles == DOMAIN sessions
NamedSessions(n) == {h \in LiveHandles : sessions[h].name = n}
PathInUse(f) == \E h \in LiveHandles : sessions[h].folder = f

HeaderRecord == [provider |-> EventTraceGuid, data |-> NoSpan]

\* A call the platform could serve may still be refused (no resources, no
\* access); the model lets it refuse MaxFaults calls in all.
Served == IF faults < MaxFaults
          THEN {ERROR_SUCCESS, ERROR_ACCESS_DENIED}
          ELSE {ERROR_SUCCESS}

Refused(r) == IF r = ERROR_ACCESS_DENIED THEN faults + 1 ELSE faults

\* "There can be up to eight private session per process": the platform
\* starts no session while as many as its cap allows are live.
CapReached == Cardinality(LiveHandles) >= sessionCap

\* StartTraceA: a properties block without room for a copy of the name and
\* its terminator gives ERROR_BAD_LENGTH; a live session of that name gives
\* ERROR_ALREADY_EXISTS; with the cap reached the start is refused with
\* ERROR_NO_SYSTEM_RESOURCES (either code when both apply); a log
\* file held open by a live session cannot be opened again; otherwise the
\* start is served.
StartTraceResults(n, f) ==
    IF strlen(n) >= SessionNameCapacity THEN {ERROR_BAD_LENGTH}
    ELSE IF CapReached
         THEN (IF NamedSessions(n) # {}
               THEN {ERROR_ALREADY_EXISTS, ERROR_NO_SYSTEM_RESOURCES}
               ELSE {ERROR_NO_SYSTEM_RESOURCES})
    ELSE IF NamedSessions(n) # {} THEN {ERROR_ALREADY_EXISTS}
    ELSE IF PathInUse(f) THEN {ERROR_SHARING_VIOLATION}
    ELSE Served

\* The session a ControlTraceA(handle, name, ..., STOP) addresses: by handle
\* when the handle is not 0, by name otherwise.
Addressed(h, n) ==
    IF h # 0 THEN {h} \cap LiveHandles ELSE NamedSessions(n)

ControlTraceResults(h, n) ==
    IF Addressed(h, n) = {} THEN {ERROR_WMI_INSTANCE_NOT_FOUND} ELSE Served

EnableTraceResults(h) ==
    IF h \in LiveHandles THEN Served ELSE {ERROR_WMI_INSTANCE_NOT_FOUND}

RegHandleResults(h) ==
    IF h \in DOMAIN registrations THEN Served ELSE {ERROR_WMI_INSTANCE_NOT_FOUND}

Restrict(f, S) == [x \in S |-> f[x]]

\* Stopping a session flushes its buffers to its log file and ends it.
StopSessions(S) ==
    /\ files' = [f \in DOMAIN files |->
                    IF \E h \in S : sessions[h].folder = f
                    THEN LET h == CHOOSE h \in S : sessions[h].folder = f
                         IN  files[f] \o sessions[h].buffer
                    ELSE files[f]]
    /\ sessions' = Restrict(sessions, LiveHandles \ S)

(***************************************************************************)
(* Initial state: no facade exists.  The platform may still hold a session *)
(* left behind under one of the names (a leaked prior session).            *)
(***************************************************************************)
LeakedSession(n) ==
    [name |-> n, folder |-> LeakedFolder, guid |-> EventTraceGuid,
     properties |->
        IF n = NoName THEN NoBlock
        ELSE Started(SetLogFilePath(FieldsSet(EventTraceGuid, LeakedBufferSize),
                                    LogFileName(LeakedFolder)), n),
     enabled |-> {}, buffer |-> <<>>]

InitAfter(refused) ==
    /\ variant \in {"registerFirst", "enableFirst"}
    /\ ndebug = FALSE
    /\ sessionCap \in 1..MaxSessionCap
    /\ pc = [i \in Facades |-> "none"]
    /\ cur = 0
    /\ sessionName = [i \in Facades |-> NoName]
    /\ outputFolder = [i \in Facades |-> LeakedFolder]
    /\ providerId = [i \in Facades |-> 0]
    /\ sessionId = [i \in Facades |-> 0]
    /\ regHandle = [i \in Facades |-> 0]
    /\ Handle = [i \in Facades |-> 0]
    /\ m_properties = [i \in Facades |-> NoBlock]
    /\ members = [i \in Facades |-> <<>>]
    /\ thrown = [i \in Facades |-> NoError]
    /\ raised = [i \in Facades |-> NoError]
    /\ calls = [i \in Facades |-> <<>>]
    /\ \E leaked \in LeakedNames \cup {NoName} :
          sessions = IF leaked = NoName
                     THEN [h \in {} |-> LeakedSession(NoName)]
                     ELSE (1 :> LeakedSession(leaked))
    /\ registrations = [h \in {} |-> 0]
    /\ files = [f \in Folders \cup {LeakedFolder} |-> <<>>]
    /\ nextHandle = 2
    /\ nextGuid = 1
    /\ faults = refused
    /\ verified = NotCalled
    /\ block = NoBlock
    /\ lifetime = [o \in Objects |-> "none"]
    /\ m_impl = [o \in Objects |-> nullptr]
    /\ undefinedBehaviour = NoUndefinedBehaviour

Init == InitAfter(0)

\* Mutant of Raise: the exception leaves the constructor without destroying
\* the members already constructed.
RaiseWithoutUnwinding(i, code, what) ==
    /\ thrown' = [thrown EXCEPT ![i] = SystemError(code, what)]
    /\ pc' = [pc EXCEPT ![i] = "failed"]
    /\ cur' = 0

\* The constructor of facade i throws std::system_error{code}: the members
\* already constructed are destroyed, last constructed first.
Raise(i, code, what) ==
    /\ thrown' = [thrown EXCEPT ![i] = SystemError(code, what)]
    /\ pc' = [pc EXCEPT ![i] = IF members[i] = <<>> THEN "failed" ELSE "unwind"]
    /\ cur' = IF members[i] = <<>> THEN 0 ELSE i

\* Member m of facade i is constructed; construction goes on.
Constructed(i, m) ==
    /\ members' = [members EXCEPT ![i] = Append(@, m)]
    /\ pc' = [pc EXCEPT ![i] = NextStage(variant, m)]
    /\ cur' = IF NextStage(variant, m) = "ready" THEN 0 ELSE i
    /\ thrown' = thrown

\* MiniLog::MiniLog(sessionName, outputFolder, bufferSize) begins.  Facades are
\* constructed in the order of their numbers.
Construct(i, n, f) ==
    /\ cur = 0
    /\ pc[i] = "none"
    /\ \A j \in Facades : j < i => pc[j] # "none"
    /\ sessionName' = [sessionName EXCEPT ![i] = n]
    /\ outputFolder' = [outputFolder EXCEPT ![i] = f]
    /\ pc' = [pc EXCEPT ![i] = IdentityOrder(variant)[1]]
    /\ cur' = i
    /\ UNCHANGED <<untouched, m_properties, ndebug, raised, providerId,
                   sessionId, regHandle, Handle, members, thrown, calls,
                   sessions, registrations, files, nextHandle, nextGuid,
                   faults>>

\* Mutant of CoCreateGuid: every call hands out the same GUID.
CoCreateGuidRepeats(next) == 1

\* ::CoCreateGuid(&guid): a GUID no earlier call has handed out.
CoCreateGuid(next) == next

\* const GUID m_sessionId{MakeGuid()} / m_providerId{MakeGuid()}
MakeGuid(i) ==
    /\ cur = i
    /\ pc[i] \in {"m_sessionId", "m_providerId"}
    /\ \E r \in Served :
          /\ faults' = Refused(r)
          /\ calls' = Logged(i, Call("CoCreateGuid", 0, NoName, 0, 0, <<>>, r))
          /\ IF VerifyHResult(r, ERROR_SUCCESS)
             THEN /\ providerId' = IF pc[i] = "m_providerId"
                                   THEN [providerId EXCEPT ![i] = CoCreateGuid(nextGuid)]
                                   ELSE providerId
                  /\ sessionId' = IF pc[i] = "m_sessionId"
                                  THEN [sessionId EXCEPT ![i] = CoCreateGuid(nextGuid)]
                                  ELSE sessionId
                  /\ nextGuid' = nextGuid + 1
                  /\ pc' = [pc EXCEPT ![i] = NextStage(variant, pc[i])]
                  /\ UNCHANGED <<cur, thrown>>
             ELSE /\ Raise(i, r, "CoCreateGuid failed")
                  /\ UNCHANGED <<providerId, sessionId, nextGuid>>
    /\ UNCHANGED <<untouched, m_properties, ndebug, raised, sessionName,
                   outputFolder, regHandle, Handle, members, sessions,
                   registrations, files, nextHandle>>

\* Providers::Provider::Provider
EventRegister(i) ==
    /\ cur = i
    /\ pc[i] = "m_provider"
    /\ \E r \in Served :
          /\ faults' = Refused(r)
          /\ calls' = Logged(i, Call("EventRegister", 0, NoName, providerId[i],
                                     0, <<>>, r))
          /\ IF r = ERROR_SUCCESS
             THEN /\ regHandle' = [regHandle EXCEPT ![i] = nextHandle]
                  /\ registrations' = registrations @@ (nextHandle :> providerId[i])
                  /\ nextHandle' = nextHandle + 1
             ELSE UNCHANGED <<regHandle, registrations, nextHandle>>
          /\ IF VerifyHResult(r, ERROR_SUCCESS)
             THEN Constructed(i, "m_provider")
             ELSE /\ Raise(i, r, "EventRegister")
                  /\ UNCHANGED members
    /\ UNCHANGED <<untouched, m_properties, ndebug, raised, sessionName,
                   outputFolder, providerId, sessionId, Handle, sessions,
                   files, nextGuid>>

\* MakeDirectories(outputFolder): std::filesystem::create_directories, which
\* throws when the directory cannot be created.
MakeDirectories(i) ==
    /\ cur = i
    /\ pc[i] = "MakeDirectories"
    /\ \E r \in Served :
          /\ faults' = Refused(r)
          /\ calls' = Logged(i, Call("create_directories", 0, outputFolder[i],
                                     0, 0, <<>>, r))
          /\ IF r = ERROR_SUCCESS
             THEN /\ pc' = [pc EXCEPT ![i] = "StartTraceA"]
                  /\ UNCHANGED <<cur, thrown>>
             ELSE Raise(i, r, "create_directories")
    /\ UNCHANGED <<untouched, m_properties, ndebug, raised, sessionName,
                   outputFolder, providerId, sessionId, regHandle, Handle,
                   members, sessions, registrations, files, nextHandle,
                   nextGuid>>

\* The sessionId argument of Session::Session (Properties.Wnode.Guid):
\* m_providerId in the registerFirst build ("for private session, use the
\* Provider's id"), m_sessionId in the enableFirst build.
SessionGuid(i) ==
    IF variant = "registerFirst" THEN providerId[i] ELSE sessionId[i]

\* Session::Session begins by constructing m_properties, the
\* EventTracePropertiesWithBuffers for the session identity and the log file
\* of the output folder.  The log of calls marks it, once per Session
\* construction, before the first start call.
PropertiesBuilt(i) ==
    IF pc[i] = "StartTraceA"
    THEN <<Call("EventTracePropertiesWithBuffers", 0, outputFolder[i],
                SessionGuid(i), 0, <<>>, ERROR_SUCCESS)>>
    ELSE <<>>

\* m_properties(sessionId, bufferSize, logFileName), the first thing
\* Session::Session does.
BuiltProperties(i) ==
    SetLogFilePath(FieldsSet(SessionGuid(i), RequestedBufferSize),
                   LogFileName(outputFolder[i]))

\* m_properties as a start call finds it: just built before the first start,
\* as the constructor has left it since before the retried one.
PropertiesAt(i) ==
    IF pc[i] = "StartTraceA" THEN BuiltProperties(i) ELSE m_properties[i]

\* ControlTraceA(..., &m_properties.Properties, EVENT_TRACE_CONTROL_STOP)
\* hands the platform the block by address: when it stops a session, the
\* platform writes that session's property settings, its name and its log
\* file name into the block (the Wnode header, which says what block this is
\* and which session is addressed, is the caller's).
WrittenBack(b, S) ==
    IF S = {} THEN b
    ELSE LET stopped == sessions[CHOOSE h \in S : TRUE].properties
         IN  [b EXCEPT
                !.Properties.BufferSize = stopped.Properties.BufferSize,
                !.Properties.LogFileMode = stopped.Properties.LogFileMode,
                !.SessionName = Stored(CString(stopped.SessionName), @),
                !.LogFilePath = Stored(CString(stopped.LogFilePath), @)]

\* Controllers::Session::Session, with assertions compiled in: the assert on
\* the length of sessionName fails and std::abort ends the process; no
\* destructor runs.
AssertSessionName(i) ==
    /\ cur = i
    /\ pc[i] = "StartTraceA"
    /\ ~ndebug
    /\ ~SessionNameAccepted(sessionName[i])
    /\ pc' = [pc EXCEPT ![i] = "aborted"]
    /\ calls' = [calls EXCEPT ![i] = @ \o PropertiesBuilt(i)]
    /\ m_properties' = [m_properties EXCEPT ![i] = BuiltProperties(i)]
    /\ UNCHANGED <<untouched, ndebug, raised, cur, sessionName, outputFolder,
                   providerId, sessionId, regHandle, Handle, members, thrown,
                   sessions, registrations, files, nextHandle, nextGuid,
                   faults>>

\* Controllers::Session::Session: m_properties is built, the assert passes
\* (or is compiled away), then
\* ::StartTraceA(&Handle, sessionName, &m_properties.Properties),
\* first or retried, then the test for ERROR_ALREADY_EXISTS (first start
\* only) or VerifyHResult(result, "StartTrace", ERROR_SUCCESS).  The platform
\* starts the session the block describes: its identity, its log file.
StartTraceA(i) ==
    /\ cur = i
    /\ pc[i] \in {"StartTraceA", "StartTraceA_retry"}
    /\ ndebug' = (ndebug \/ ~SessionNameAccepted(sessionName[i]))
    /\ \E r \in StartTraceResults(sessionName[i], FolderOf(PropertiesAt(i))) :
          /\ faults' = Refused(r)
          /\ calls' = [calls EXCEPT ![i] =
                          @ \o PropertiesBuilt(i) \o
                          <<[Call("StartTraceA", 0, sessionName[i],
                                  PropertiesAt(i).Properties.Wnode.Guid, 0,
                                  <<>>, r)
                                EXCEPT !.properties = PropertiesAt(i)]>>]
          /\ IF r = ERROR_SUCCESS
             THEN /\ Handle' = [Handle EXCEPT ![i] = nextHandle]
                  /\ m_properties' =
                        [m_properties EXCEPT
                            ![i] = Started(PropertiesAt(i), sessionName[i])]
                  /\ sessions' = sessions @@
                        (nextHandle :>
                            [name |-> sessionName[i],
                             folder |-> FolderOf(PropertiesAt(i)),
                             guid |-> PropertiesAt(i).Properties.Wnode.Guid,
                             properties |->
                                Started(PropertiesAt(i), sessionName[i]),
                             enabled |-> {},
                             buffer |-> <<>>])
                  /\ files' = [files EXCEPT ![FolderOf(PropertiesAt(i))] =
                                                <<HeaderRecord>>]
                  /\ nextHandle' = nextHandle + 1
             ELSE /\ m_properties' =
                        [m_properties EXCEPT ![i] = PropertiesAt(i)]
                  /\ UNCHANGED <<Handle, sessions, files, nextHandle>>
          /\ IF ShouldRetry(pc[i], r)
             THEN /\ pc' = [pc EXCEPT ![i] = "DestroySession"]
                  /\ UNCHANGED <<cur, thrown, members>>
             ELSE IF VerifyHResult(r, ERROR_SUCCESS)
                  THEN Constructed(i, "m_session")
                  ELSE /\ Raise(i, r, "StartTrace")
                       /\ UNCHANGED members
    /\ UNCHANGED <<untouched, raised, sessionName, outputFolder, providerId,
                   sessionId, regHandle, registrations, nextGuid>>

\* Session::DestroySession(sessionName) on the retry path:
\* ::ControlTraceA(Handle, sessionName, ..., EVENT_TRACE_CONTROL_STOP), its
\* result discarded.
DestroySessionByName(i) ==
    /\ cur = i
    /\ pc[i] = "DestroySession"
    /\ LET n == StopName(i, pc[i])
       IN  \E r \in ControlTraceResults(Handle[i], n) :
              /\ faults' = Refused(r)
              /\ calls' = Logged(i, Call("ControlTraceA", Handle[i], n, 0, 0,
                                         <<>>, r))
              /\ IF r = ERROR_SUCCESS
                 THEN StopSessions(Addressed(Handle[i], n))
                 ELSE UNCHANGED <<sessions, files>>
              /\ m_properties' =
                    [m_properties EXCEPT
                        ![i] = IF r = ERROR_SUCCESS
                               THEN WrittenBack(@, Addressed(Handle[i], n))
                               ELSE @]
    /\ pc' = [pc EXCEPT ![i] = "StartTraceA_retry"]
    /\ UNCHANGED <<untouched, ndebug, raised, cur, sessionName, outputFolder,
                   providerId, sessionId, regHandle, Handle, members, thrown,
                   registrations, nextHandle, nextGuid>>

\* Session::EnableProvider -> Controllers::EnabledProvider::EnabledProvider
EnableProvider(i) ==
    /\ cur = i
    /\ pc[i] = "m_enabledProvider"
    /\ \E r \in EnableTraceResults(Handle[i]) :
          /\ faults' = Refused(r)
          /\ calls' = Logged(i, Call("EnableTraceEx2", Handle[i], NoName,
                                     providerId[i],
                                     EVENT_CONTROL_CODE_ENABLE_PROVIDER,
                                     <<>>, r))
          /\ IF r = ERROR_SUCCESS
             THEN sessions' = [sessions EXCEPT ![Handle[i]].enabled =
                                                   @ \cup {providerId[i]}]
             ELSE UNCHANGED sessions
          /\ IF VerifyHResult(r, ERROR_SUCCESS)
             THEN Constructed(i, "m_enabledProvider")
             ELSE /\ Raise(i, r, "EnableTraceEx2 - enabling provider")
                  /\ UNCHANGED members
    /\ UNCHANGED <<untouched, m_properties, ndebug, raised, sessionName,
                   outputFolder, providerId, sessionId, regHandle, Handle,
                   registrations, files, nextHandle, nextGuid>>

\* std::default_delete<Impl> on Impl i: its destructor begins.  The log of
\* calls marks where.
Delete(i) ==
    /\ pc' = [pc EXCEPT ![i] = "dtor"]
    /\ cur' = i
    /\ calls' = Logged(i, Call("~MiniLog", 0, NoName, 0, 0, <<>>, ERROR_SUCCESS))

\* MiniLog::~MiniLog: the unique_ptr deletes Impl, whose members are destroyed.
Destroy(i) ==
    /\ cur = 0
    /\ pc[i] = "ready"
    /\ Delete(i)
    /\ UNCHANGED <<untouched, m_properties, ndebug, raised, sessionName,
                   outputFolder, providerId, sessionId, regHandle, Handle,
                   members, thrown, sessions, registrations, files, nextHandle,
                   nextGuid, faults>>

Front(seq) == SubSeq(seq, 1, Len(seq) - 1)
Last(seq) == seq[Len(seq)]

\* The member destroyed next is the last one constructed.  After the first
\* one constructed is gone, the destructor (or the unwinding) is over.  A
\* destructor that raised would end the program (std::terminate).
Destroyed(i, r) ==
    /\ members' = [members EXCEPT ![i] = Front(@)]
    /\ pc' = [pc EXCEPT ![i] =
                IF DestructorRaises(r) THEN "terminated"
                ELSE IF Len(members[i]) > 1 THEN @
                ELSE IF @ = "unwind" THEN "failed" ELSE "destroyed"]
    /\ cur' = IF Len(members[i]) > 1 /\ ~DestructorRaises(r) THEN i ELSE 0

Destroying(i, m) ==
    /\ cur = i
    /\ pc[i] \in {"unwind", "dtor"}
    /\ members[i] # <<>>
    /\ Last(members[i]) = m

\* Controllers::EnabledProvider::~EnabledProvider
DisableProvider(i) ==
    /\ Destroying(i, "m_enabledProvider")
    /\ \E r \in EnableTraceResults(Handle[i]) :
          /\ faults' = Refused(r)
          /\ calls' = Logged(i, Call("EnableTraceEx2", Handle[i], NoName,
                                     providerId[i],
                                     EVENT_CONTROL_CODE_DISABLE_PROVIDER,
                                     <<>>, r))
          /\ IF r = ERROR_SUCCESS
             THEN sessions' = [sessions EXCEPT ![Handle[i]].enabled =
                                                   @ \ {providerId[i]}]
             ELSE UNCHANGED sessions
          /\ Destroyed(i, r)
    /\ UNCHANGED <<untouched, m_properties, ndebug, raised, sessionName,
                   outputFolder, providerId, sessionId, regHandle, Handle,
                   thrown, registrations, files, nextHandle, nextGuid>>

\* Controllers::Session::~Session: DestroySession(nullptr)
DestroySession(i) ==
    /\ Destroying(i, "m_session")
    /\ LET n == StopName(i, pc[i])
       IN  \E r \in ControlTraceResults(Handle[i], n) :
              /\ faults' = Refused(r)
              /\ calls' = Logged(i, Call("ControlTraceA", Handle[i], n, 0, 0,
                                         <<>>, r))
              /\ IF r = ERROR_SUCCESS
                 THEN StopSessions(Addressed(Handle[i], n))
                 ELSE UNCHANGED <<sessions, files>>
              /\ m_properties' =
                    [m_properties EXCEPT
                        ![i] = IF r = ERROR_SUCCESS
                               THEN WrittenBack(@, Addressed(Handle[i], n))
                               ELSE @]
              /\ Destroyed(i, r)
    /\ UNCHANGED <<untouched, ndebug, raised, sessionName, outputFolder,
                   providerId, sessionId, regHandle, Handle, thrown,
                   registrations, nextHandle, nextGuid>>

\* Providers::Provider::~Provider
EventUnregister(i) ==
    /\ Destroying(i, "m_provider")
    /\ \E r \in RegHandleResults(regHandle[i]) :
          /\ faults' = Refused(r)
          /\ calls' = Logged(i, Call("EventUnregister", regHandle[i], NoName,
                                     0, 0, <<>>, r))
          /\ IF r = ERROR_SUCCESS
             THEN registrations' =
                     Restrict(registrations, DOMAIN registrations \ {regHandle[i]})
             ELSE UNCHANGED registrations
          /\ Destroyed(i, r)
    /\ UNCHANGED <<untouched, m_properties, ndebug, raised, sessionName,
                   outputFolder, providerId, sessionId, regHandle, Handle,
                   thrown, sessions, files, nextHandle, nextGuid>>

Writes(i) == SelectSeq(calls[i], LAMBDA c : c.op = "EventWrite")

\* The sessions after an event with data d written through registration h
\* has reached the buffers of every live session h's provider is enabled in.
Delivered(h, d) ==
    [s \in LiveHandles |->
        IF registrations[h] \in sessions[s].enabled
        THEN [sessions[s] EXCEPT !.buffer =
                Append(@, [provider |-> registrations[h], data |-> d])]
        ELSE sessions[s]]

RECURSIVE Sum(_, _)
Sum(f, S) == IF S = {} THEN 0
             ELSE LET x == CHOOSE x \in S : TRUE IN f[x] + Sum(f, S \ {x})

Emits == Sum([i \in Facades |-> Len(Writes(i))], Facades)

\* MiniLog::operator() -> Impl::Write: one EVENT_DATA_DESCRIPTOR, one
\* ::EventWrite through m_provider.Handle, then VerifyHResult, which lets the
\* call return or throws out of operator().  A successful write reaches the
\* buffers of every live session the provider is enabled in.
Write(i, message) ==
    /\ cur = 0
    /\ pc[i] = "ready"
    /\ Emits < MaxEmits
    /\ LET d == EventDataDescCreate(message)
       IN  \E r \in RegHandleResults(regHandle[i]) :
              /\ faults' = Refused(r)
              /\ calls' = Logged(i, [Call("EventWrite", regHandle[i], NoName,
                                          0, 0, <<d>>, r)
                                        EXCEPT !.message = message])
              /\ raised' = [raised EXCEPT ![i] =
                               IF VerifyHResult(r, ERROR_SUCCESS)
                               THEN NoError
                               ELSE SystemError(r, "EventWrite")]
              /\ IF r = ERROR_SUCCESS
                 THEN sessions' = Delivered(regHandle[i], d)
                 ELSE UNCHANGED sessions
    /\ UNCHANGED <<untouched, m_properties, ndebug, pc, cur, sessionName,
                   outputFolder, providerId, sessionId, regHandle, Handle,
                   members, thrown, registrations, files, nextHandle,
                   nextGuid>>

Next ==
    \/ \E i \in Facades, n \in Names : \E f \in FoldersFor(i) : Construct(i, n, f)
    \/ \E i \in Facades : MakeGuid(i)
    \/ \E i \in Facades : EventRegister(i)
    \/ \E i \in Facades : MakeDirectories(i)
    \/ \E i \in Facades : AssertSessionName(i)
    \/ \E i \in Facades : StartTraceA(i)
    \/ \E i \in Facades : DestroySessionByName(i)
    \/ \E i \in Facades : EnableProvider(i)
    \/ \E i \in Facades, message \in Payloads : Write(i, message)
    \/ \E i \in Facades : Destroy(i)
    \/ \E i \in Facades : DisableProvider(i)
    \/ \E i \in Facades : DestroySession(i)
    \/ \E i \in Facades : EventUnregister(i)

Spec == Init /\ [][Next]_vars

\* Consumers::ReadRecords(file): the payloads of the records of file that
\* are not the trace file's own header records.
ReadRecords(f) ==
    LET kept == SelectSeq(files[f], LAMBDA rec : rec.provider # EventTraceGuid)
    IN  [k \in 1..Len(kept) |-> kept[k].data]

(***************************************************************************)
(* Reading the log of calls                                                *)
(***************************************************************************)
Kind(c) ==
    CASE c.op = "EnableTraceEx2" /\ c.code = EVENT_CONTROL_CODE_ENABLE_PROVIDER
            -> "enable"
      [] c.op = "EnableTraceEx2" /\ c.code = EVENT_CONTROL_CODE_DISABLE_PROVIDER
            -> "disable"
      [] c.op = "ControlTraceA" /\ c.name = NoName -> "stop"
      [] c.op = "ControlTraceA" /\ c.name # NoName -> "stopByName"
      [] OTHER -> c.op

Kinds(seq) == [k \in 1..Len(seq) |-> Kind(seq[k])]

\* The positions of the calls of kind kd in the log of facade i.
At(i, kd) == {k \in 1..Len(calls[i]) : Kind(calls[i][k]) = kd}
Served_At(i, kd) == {k \in At(i, kd) : calls[i][k].res = ERROR_SUCCESS}

Min(S) == CHOOSE x \in S : \A y \in S : x <= y
Max(S) == CHOOSE x \in S : \A y \in S : x >= y

\* The calls the destructor of facade i has issued (none before it began).
TeardownCalls(i) ==
    IF At(i, "~MiniLog") = {} THEN <<>>
    ELSE SubSeq(calls[i], Min(At(i, "~MiniLog")) + 1, Len(calls[i]))

InSessionCtor(i) ==
    pc[i] \in {"StartTraceA", "DestroySession", "StartTraceA_retry"}

\* The constructor call whose result made the constructor throw: the first
\* call whose result was passed to VerifyHResult and is not a success.
Verified(c) ==
    Kind(c) \in {"CoCreateGuid", "EventRegister", "create_directories",
                 "StartTraceA", "enable"}

FailingCalls(i) ==
    {k \in 1..Len(calls[i]) :
        /\ Verified(calls[i][k])
        /\ calls[i][k].res # ERROR_SUCCESS
        /\ ~(/\ Kind(calls[i][k]) = "StartTraceA"
             /\ calls[i][k].res = ERROR_ALREADY_EXISTS
             /\ k = Min(At(i, "StartTraceA")))}

Reverse(seq) == [k \in 1..Len(seq) |-> seq[Len(seq) + 1 - k]]

ReleaseOf(kd) ==
    CASE kd = "EventRegister" -> "EventUnregister"
      [] kd = "StartTraceA" -> "stop"
      [] kd = "enable" -> "disable"

\* The member whose destructor issues the release call of kind kd.
ReleaseOfMember(kd) ==
    CASE kd = "EventUnregister" -> "m_provider"
      [] kd = "stop" -> "m_session"
      [] kd = "disable" -> "m_enabledProvider"

\* Whether, in the log of facade i, its enablement is in force just before
\* position k: an enable call succeeded and no disable call was issued since.
EnablementInForce(i, k) ==
    \E e \in Served_At(i, "enable") :
        /\ e < k
        /\ \A d \in At(i, "disable") : ~(e < d /\ d < k)

(***************************************************************************)
(* Claims                                                                  *)
(***************************************************************************)

\* C1: in the registerFirst build, the destructor of a constructed facade
\* issues exactly three calls, each once and in this order: disable provider,
\* stop session (by handle), unregister source; and the facade never issues
\* its own stop or its unregister call while its enablement is in force.
C1_TeardownOrder ==
    variant = "registerFirst" =>
        \A i \in Facades :
            /\ pc[i] = "destroyed" =>
                  Kinds(TeardownCalls(i)) = <<"disable", "stop", "EventUnregister">>
            /\ pc[i] = "dtor" =>
                  \E n \in 0..2 :
                      Kinds(TeardownCalls(i)) =
                          SubSeq(<<"disable", "stop", "EventUnregister">>, 1, n)
            /\ \A k \in At(i, "stop") \cup At(i, "EventUnregister") :
                  ~EnablementInForce(i, k)

C1_Witness ==
    /\ variant = "registerFirst"
    /\ \E i \in Facades :
          /\ pc[i] = "destroyed"
          /\ Len(TeardownCalls(i)) = 3
          /\ Served_At(i, "enable") # {}

\* C2: in the registerFirst build the constructor issues register source,
\* then start session, then enable provider: a start call is issued only
\* after the register call returned success, and the enable call only after
\* the register call and a start call returned success.
C2_ConstructionOrder ==
    variant = "registerFirst" =>
        \A i \in Facades :
            /\ \A s \in At(i, "StartTraceA") :
                  \E r \in Served_At(i, "EventRegister") : r < s
            /\ \A e \in At(i, "enable") :
                  /\ \E r \in Served_At(i, "EventRegister") : r < e
                  /\ \E s \in Served_At(i, "StartTraceA") : s < e
                  /\ \A s \in At(i, "StartTraceA") : s < e
            /\ Cardinality(At(i, "EventRegister")) <= 1
            /\ Cardinality(At(i, "enable")) <= 1
            /\ pc[i] = "ready" =>
                  /\ Served_At(i, "EventRegister") # {}
                  /\ Served_At(i, "StartTraceA") # {}
                  /\ Served_At(i, "enable") # {}

C2_Witness ==
    /\ variant = "registerFirst"
    /\ \E i \in Facades :
          /\ pc[i] = "ready"
          /\ Cardinality(At(i, "StartTraceA")) = 2

\* The successful acquisitions among the first n calls of facade i.
Acquired(i, n) ==
    SelectSeq(SubSeq(calls[i], 1, n),
              LAMBDA c : /\ Kind(c) \in {"EventRegister", "StartTraceA", "enable"}
                         /\ c.res = ERROR_SUCCESS)

\* C3: when a step of the construction fails (register, first or retried
\* start, enable, and also identity generation or directory creation), then
\* once the failure has reached the caller the release call of every resource
\* acquired before it has been issued, in reverse order of acquisition and
\* addressed to that resource, the failure carries the failing call's code,
\* and the facade owns nothing; where the platform served those release calls,
\* its session and registration are no longer live.
C3_FailedConstructionReleasesAll ==
    \A i \in Facades :
        pc[i] = "failed" =>
            /\ members[i] = <<>>
            /\ FailingCalls(i) # {}
            /\ LET f == Min(FailingCalls(i))
                   acquired == Acquired(i, f - 1)
                   released == SubSeq(calls[i], f + 1, Len(calls[i]))
               IN  /\ thrown[i].code = calls[i][f].res
                   /\ Kinds(released) =
                         Reverse([k \in 1..Len(acquired) |->
                                     ReleaseOf(Kind(acquired[k]))])
                   /\ \A k \in 1..Len(released) :
                         /\ Kind(released[k]) \in {"stop", "disable"} =>
                               released[k].handle = Handle[i] /\ Handle[i] # 0
                         /\ Kind(released[k]) = "disable" =>
                               released[k].guid = providerId[i]
                         /\ Kind(released[k]) = "EventUnregister" =>
                               released[k].handle = regHandle[i] /\ regHandle[i] # 0
                   /\ (\A k \in 1..Len(released) : released[k].res = ERROR_SUCCESS) =>
                         /\ Handle[i] \notin LiveHandles
                         /\ regHandle[i] \notin DOMAIN registrations

C3_Witness ==
    \E i \in Facades :
        /\ pc[i] = "failed"
        /\ thrown[i].what = "EnableTraceEx2 - enabling provider"
        /\ Len(Acquired(i, Len(calls[i]))) = 2
        /\ Len(calls[i]) - Min(FailingCalls(i)) = 2

\* C4: one Session construction issues at most two start calls; a second one
\* is issued exactly when the first reported ERROR_ALREADY_EXISTS, after
\* exactly one stop call addressed by the same session name; when the first
\* start reports anything else there is no stop-by-name and no second start.
C4_RetryAtMostOnce ==
    \A i \in Facades :
        LET starts == At(i, "StartTraceA")
            stops == At(i, "stopByName")
        IN  /\ Cardinality(starts) <= 2
            /\ Cardinality(stops) <= 1
            /\ \A s \in starts : calls[i][s].name = sessionName[i]
            /\ \A k \in stops :
                  /\ calls[i][k].name = sessionName[i]
                  /\ calls[i][k].handle = 0
                  /\ k = Min(starts) + 1
                  /\ calls[i][Min(starts)].res = ERROR_ALREADY_EXISTS
            /\ Cardinality(starts) = 2 =>
                  /\ Cardinality(stops) = 1
                  /\ Max(starts) = Min(starts) + 2
            /\ (starts # {} /\ ~InSessionCtor(i)) =>
                  (Cardinality(starts) = 2 <=>
                      calls[i][Min(starts)].res = ERROR_ALREADY_EXISTS)

C4_Witness ==
    \E i \in Facades :
        /\ Cardinality(At(i, "StartTraceA")) = 2
        /\ calls[i][Max(At(i, "StartTraceA"))].res = ERROR_ALREADY_EXISTS
        /\ ~InSessionCtor(i)

\* C5: Session construction succeeds exactly when the last start call it
\* issued returned ERROR_SUCCESS; otherwise (a second ERROR_ALREADY_EXISTS,
\* or any other failure of either start) the constructor throws with that
\* code, whatever the stop call in between returned.
C5_SessionOutcomeIsLastStart ==
    \A i \in Facades :
        (At(i, "StartTraceA") # {} /\ ~InSessionCtor(i)) =>
            LET last == calls[i][Max(At(i, "StartTraceA"))]
            IN  /\ thrown[i].what = "StartTrace" <=> last.res # ERROR_SUCCESS
                /\ thrown[i].what = "StartTrace" => thrown[i].code = last.res
                /\ last.res = ERROR_SUCCESS =>
                      /\ Handle[i] # 0
                      /\ \/ "m_session" \in {members[i][k] : k \in 1..Len(members[i])}
                         \/ At(i, "stop") # {}
                /\ last.res # ERROR_SUCCESS =>
                      /\ Handle[i] = 0
                      /\ At(i, "enable") \cup At(i, "stop") = {}
                      /\ pc[i] \in {"unwind", "failed"}

C5_Witness ==
    \E i \in Facades :
        /\ thrown[i].what = "StartTrace"
        /\ thrown[i].code = ERROR_ALREADY_EXISTS
        /\ \E k \in At(i, "stopByName") : calls[i][k].res = ERROR_ACCESS_DENIED
        /\ pc[i] = "failed"

\* The first start call of facade i reported ERROR_ALREADY_EXISTS.
Collided(i) ==
    /\ At(i, "StartTraceA") # {}
    /\ calls[i][Min(At(i, "StartTraceA"))].res = ERROR_ALREADY_EXISTS

\* Facade i holds a live registration, a live session of its name and its
\* provider enabled in that session.
FullyLive(i) ==
    /\ members[i] = MemberOrder(variant)
    /\ Handle[i] \in LiveHandles
    /\ sessions[Handle[i]].name = sessionName[i]
    /\ regHandle[i] \in DOMAIN registrations
    /\ registrations[regHandle[i]] = providerId[i]
    /\ providerId[i] \in sessions[Handle[i]].enabled

\* The platform refused a call of the constructor of facade i for a reason
\* other than the name collision: the failing call was refused, or the stop of
\* the colliding session was.
PlatformRefused(i) ==
    \/ /\ FailingCalls(i) # {}
       /\ calls[i][Min(FailingCalls(i))].res
             \in {ERROR_ACCESS_DENIED, ERROR_SHARING_VIOLATION,
                  ERROR_NO_SYSTEM_RESOURCES}
    \/ \E k \in At(i, "stopByName") : calls[i][k].res # ERROR_SUCCESS

\* C6: a construction under the name of a live session (as when two facades
\* are constructed with the same name in succession) does not fail because of
\* the collision: its first start reports ERROR_ALREADY_EXISTS, it stops the
\* session of that name and starts again; unless the platform refuses one of
\* its calls for another reason, it ends at a fully constructed facade with a
\* live session, registration and enablement.
C6_SameNameSucceedsByRetry ==
    [][\A i \in Facades :
          /\ (pc[i] # "ready" /\ pc'[i] = "ready" /\ Collided(i)') =>
                /\ FullyLive(i)'
                /\ \E k \in Served_At(i, "stopByName")' :
                      /\ calls'[i][k].name = sessionName'[i]
                      /\ \E s \in Served_At(i, "StartTraceA")' : k < s
          /\ (pc'[i] \in {"unwind", "failed"} /\ Collided(i)') =>
                PlatformRefused(i)'
          /\ (pc[i] = "DestroySession" /\ pc'[i] # "DestroySession") =>
                Collided(i) /\ At(i, "stopByName")' # {}
      ]_vars

C6_Witness ==
    /\ pc[1] = "ready"
    /\ pc[2] = "ready"
    /\ sessionName[1] = sessionName[2]
    /\ ~Collided(1)
    /\ Collided(2)
    /\ FullyLive(2)
    /\ Handle[1] \notin LiveHandles

C8_TeardownNeverRaises ==
    \A i \in Facades :
        /\ pc[i] # "terminated"
        /\ pc[i] = "dtor" =>
              /\ members[i] # <<>>
              /\ ENABLED (DisableProvider(i) \/ DestroySession(i) \/ EventUnregister(i))
        /\ pc[i] \in {"dtor", "destroyed"} =>
              /\ thrown[i] = NoError
              /\ LET issued == Kinds(TeardownCalls(i))
                 IN  \A kd \in {"disable", "stop", "EventUnregister"} :
                        Cardinality({k \in 1..Len(issued) : issued[k] = kd})
                            = IF \/ pc[i] = "destroyed"
                                 \/ ReleaseOfMember(kd) \notin
                                       {members[i][k] : k \in 1..Len(members[i])}
                              THEN 1 ELSE 0
        /\ pc[i] = "destroyed" =>
              /\ members[i] = <<>>
              /\ Len(TeardownCalls(i)) = 3

C8_Witness ==
    \E i \in Facades :
        /\ pc[i] = "destroyed"
        /\ \A k \in 1..Len(TeardownCalls(i)) :
              TeardownCalls(i)[k].res # ERROR_SUCCESS

\* The payloads of the emit calls of facade i that returned normally, in
\* call order.
Emitted(i) ==
    LET ok == SelectSeq(Writes(i), LAMBDA c : VerifyHResult(c.res, ERROR_SUCCESS))
    IN  [k \in 1..Len(ok) |-> ok[k].message]

\* No other facade was constructed under the session name or the output
\* folder of facade i ("each with its own session/name").
Undisturbed(i) ==
    \A j \in Facades \ {i} :
        pc[j] # "none" =>
            /\ sessionName[j] # sessionName[i]
            /\ outputFolder[j] # outputFolder[i]

\* Facade i was constructed, destroyed, and the platform served the stop of
\* its session, which flushes the session's buffers to the log file.
DestroyedAndFlushed(i) ==
    /\ pc[i] = "destroyed"
    /\ Served_At(i, "stop") # {}

\* C9 as claimed (round trip): for every payload, construct, emit(payload)
\* once, destroy, read the log file: exactly one record, whose bytes and
\* length are the payload's.
C9_RoundTrip ==
    \A i \in Facades :
        (/\ DestroyedAndFlushed(i)
         /\ Undisturbed(i)
         /\ Len(Writes(i)) = 1
         /\ Len(Emitted(i)) = 1) =>
            LET records == ReadRecords(outputFolder[i])
            IN  /\ Len(records) = 1
                /\ records[1].size = Emitted(i)[1].size
                /\ SameBytes(records[1], Emitted(i)[1])

\* C10 as claimed: after N successful emit calls on one facade and its
\* destruction, the log file holds exactly N records, the k-th being the
\* payload of the k-th emit call.
C10_RecordsInCallOrder ==
    \A i \in Facades :
        (DestroyedAndFlushed(i) /\ Undisturbed(i)) =>
            LET records == ReadRecords(outputFolder[i])
            IN  /\ Len(records) = Len(Emitted(i))
                /\ \A k \in 1..Len(records) : SameBytes(records[k], Emitted(i)[k])

\* A step in which facade i issued platform calls as part of an emit.
Emitting(i) == Len(Writes(i))' > Len(Writes(i))

\* C11 as claimed: each emit call issues exactly one EventWrite, through the
\* handle of the facade's own registration, with exactly one data descriptor,
\* and that descriptor refers to the caller's payload (same address, same
\* extent); nothing is queued and no second write is issued for the call.
C11_OneWriteOfThePayload ==
    [][\A i \in Facades :
          Emitting(i) =>
              LET c == Last(calls'[i])
              IN  /\ calls'[i] = Append(calls[i], c)
                  /\ c.op = "EventWrite"
                  /\ c.handle = regHandle[i]
                  /\ c.handle \in DOMAIN registrations
                  /\ registrations[c.handle] = providerId[i]
                  /\ Len(c.data) = 1
                  /\ c.data[1] = c.message
                  /\ \A j \in Facades \ {i} : calls'[j] = calls[j]
      ]_vars

\* C12: when the EventWrite of an emit returns a non-success code, operator()
\* throws a failure carrying that code after that single call (no retry); the
\* facade stays constructed, and its registration, every session and every
\* enablement are as they were, so a later emit on it is possible.  An emit
\* whose write succeeds returns normally.
C12_FailedEmitLeavesFacadeLive ==
    [][\A i \in Facades :
          Emitting(i) =>
              LET c == Last(calls'[i])
              IN  /\ Len(calls'[i]) = Len(calls[i]) + 1
                  /\ c.res = ERROR_SUCCESS => raised'[i] = NoError
                  /\ c.res # ERROR_SUCCESS =>
                        /\ raised'[i].code = c.res
                        /\ raised'[i].what = "EventWrite"
                        /\ pc'[i] = "ready"
                        /\ cur' = 0
                        /\ members'[i] = MemberOrder(variant)
                        /\ regHandle'[i] = regHandle[i]
                        /\ Handle'[i] = Handle[i]
                        /\ providerId'[i] = providerId[i]
                        /\ registrations' = registrations
                        /\ regHandle'[i] \in DOMAIN registrations'
                        /\ sessions' = sessions
                        /\ files' = files
      ]_vars

C12_Witness ==
    \E i \in Facades :
        /\ Len(Writes(i)) = 2
        /\ Writes(i)[1].res # ERROR_SUCCESS
        /\ Writes(i)[2].res = ERROR_SUCCESS
        /\ raised[i] = NoError
        /\ FullyLive(i)

\* C13 as claimed: the size placed in the data descriptor handed to EventWrite
\* equals the size of the payload, for every payload size a size_t can hold.
C13_LengthPreserved ==
    \A i \in Facades :
        \A k \in At(i, "EventWrite") :
            calls[i][k].data[1].size = calls[i][k].message.size

\* The calls a constructor has issued when it reaches the assert on the
\* session name.
CallsBeforeSession(v) ==
    IF v = "registerFirst"
    THEN <<"CoCreateGuid", "EventRegister", "create_directories",
           "EventTracePropertiesWithBuffers">>
    ELSE <<"CoCreateGuid", "CoCreateGuid", "EventTracePropertiesWithBuffers">>

\* C14 as claimed: a construction with a session name longer than the 256
\* reserved bytes fails before any platform call (identity generation,
\* directory creation, source registration, session start) has been issued.
C14_FailsBeforeAnyPlatformCall ==
    \A i \in Facades :
        (pc[i] # "none" /\ strlen(sessionName[i]) > SessionNameCapacity) =>
            calls[i] = <<>>

\* C14 amended: the length of the session name is checked by an assert in
\* the Session constructor.  In a build with assertions, a name longer than
\* 256 bytes ends the process there: before any session start call, but after
\* the identity generation and (in the registerFirst build) the source
\* registration and the directory creation were issued and served; what was
\* acquired is not released.  A start call is issued under such a name only by
\* a build without assertions, and a name within the capacity never aborts.
C14_NameCheckedBeforeStart ==
    \A i \in Facades :
        /\ pc[i] = "aborted" =>
              /\ strlen(sessionName[i]) > SessionNameCapacity
              /\ Kinds(calls[i]) = CallsBeforeSession(variant)
              /\ \A k \in 1..Len(calls[i]) : calls[i][k].res = ERROR_SUCCESS
              /\ thrown[i] = NoError
              /\ cur = i
        /\ (pc[i] # "none" /\ strlen(sessionName[i]) > SessionNameCapacity) =>
              (At(i, "StartTraceA") # {} => ndebug)

C14_Witness ==
    /\ variant = "registerFirst"
    /\ \E i \in Facades :
          /\ pc[i] = "aborted"
          /\ regHandle[i] \in DOMAIN registrations
          /\ At(i, "create_directories") # {}

\* The last start call of facade i was refused because the cap on live
\* sessions is reached.
CapRefused(i) ==
    /\ At(i, "StartTraceA") # {}
    /\ calls[i][Max(At(i, "StartTraceA"))].res = ERROR_NO_SYSTEM_RESOURCES

\* What the platform holds for facade j: its session and its registration.
Held(j) ==
    <<IF Handle[j] \in LiveHandles THEN <<sessions[Handle[j]]>> ELSE <<>>,
      IF regHandle[j] \in DOMAIN registrations
      THEN <<registrations[regHandle[j]]>> ELSE <<>>>>

\* C15: when a start call is refused because the cap on concurrently live
\* sessions is reached, the constructor throws that code to the caller: it
\* does not stop and retry, it does not wait, it never ends at a constructed
\* facade; it releases what it had acquired, and from the refusal on nothing
\* it does changes the session, registration or state of another facade.
C15_CapRefusalFailsConstruction ==
    /\ [](\A i \in Facades :
            CapRefused(i) =>
                /\ pc[i] \in {"unwind", "failed"}
                /\ thrown[i] = SystemError(ERROR_NO_SYSTEM_RESOURCES, "StartTrace")
                /\ pc[i] = "unwind" => (cur = i /\ members[i] # <<>>)
                /\ pc[i] = "failed" =>
                      (/\ members[i] = <<>>
                       /\ Served_At(i, "EventRegister") # {} =>
                             At(i, "EventUnregister") # {}))
    /\ [][\A i \in Facades :
            (CapRefused(i)' /\ calls'[i] # calls[i]) =>
                /\ Kind(Last(calls'[i])) \in {"StartTraceA", "EventUnregister"}
                /\ \A j \in Facades \ {i} :
                      /\ Held(j)' = Held(j)
                      /\ pc'[j] = pc[j]
                      /\ members'[j] = members[j]
                      /\ calls'[j] = calls[j]
       ]_vars

C15_Witness ==
    /\ variant = "registerFirst"
    /\ \E i \in Facades, j \in Facades :
          /\ i # j
          /\ pc[i] = "failed"
          /\ CapRefused(i)
          /\ At(i, "EventUnregister") # {}
          /\ pc[j] = "ready"
          /\ FullyLive(j)

\* Every facade is constructed under a session name and an output folder no
\* other facade uses, no session of another origin is live, and the platform
\* has refused no call it could serve.
DistinctFacades ==
    /\ \A i \in Facades : pc[i] # "none" /\ SessionNameAccepted(sessionName[i])
    /\ \A i \in Facades : Undisturbed(i)
    /\ \A h \in LiveHandles : \E i \in Facades : Handle[i] = h
    /\ \A i \in Facades : At(i, "stopByName") = {}
    /\ faults = 0

\* The data descriptors of the emits of facade i that returned normally.
Written(i) ==
    LET ok == SelectSeq(Writes(i), LAMBDA c : VerifyHResult(c.res, ERROR_SUCCESS))
    IN  [k \in 1..Len(ok) |-> ok[k].data[1]]

\* The records of the log file of folder f that carry provider identity g.
RecordsOf(f, g) == SelectSeq(files[f], LAMBDA rec : rec.provider = g)

Alive(i) == pc[i] \in {"ready", "dtor"}

C18_DirectoriesOnceBeforeSession ==
    variant = "registerFirst" =>
        \A i \in Facades :
            LET made == At(i, "create_directories")
                after == At(i, "EventTracePropertiesWithBuffers")
                             \cup At(i, "StartTraceA")
            IN  /\ Cardinality(made) <= 1
                /\ \A k \in made : calls[i][k].name = outputFolder[i]
                /\ \A k \in after :
                      \E m \in made :
                          /\ m < k
                          /\ calls[i][m].res = ERROR_SUCCESS
                /\ Cardinality(At(i, "EventTracePropertiesWithBuffers")) <= 1
                /\ \A s \in At(i, "StartTraceA") :
                      \E b \in At(i, "EventTracePropertiesWithBuffers") : b < s
                /\ pc[i] \in {"m_enabledProvider", "ready", "dtor", "destroyed"} =>
                      Cardinality(made) = 1

C18_Witness ==
    /\ variant = "registerFirst"
    /\ \E i \in Facades :
          /\ pc[i] = "ready"
          /\ Cardinality(At(i, "StartTraceA")) = 2
          /\ Cardinality(At(i, "create_directories")) = 1
          /\ Min(At(i, "create_directories")) < Min(At(i, "StartTraceA"))

(***************************************************************************)
(* EtwLog::VerifyHResult called directly (as the tests do for               *)
(* ProcessTrace), in its two versions: with an expected good result          *)
(* (src/Log/MiniEtwLog.h) and with an optional one (src/unnamed/part_000).  *)
(***************************************************************************)

\* A std::uint32_t, held as its top bit and its low 31 bits.
UInt32(bit31, low) == [bit31 |-> bit31, low |-> low]

\* static_cast<int>(hresult): the same 32 bits read as two's complement.
ToInt(h) == IF h.bit31 = 1 THEN (h.low - 2147483647) - 1 ELSE h.low

\* The std::uint32_t whose bits an int holds.
ToUInt32(v) == IF v < 0 THEN UInt32(1, (v + 2147483647) + 1) ELSE UInt32(0, v)

\* SUCCEEDED(hr): ((HRESULT)(hr)) >= 0
SUCCEEDED(h) == ToInt(h) >= 0

\* S_OK / ERROR_SUCCESS, S_FALSE, ERROR_ACCESS_DENIED, ERROR_ALREADY_EXISTS,
\* E_FAIL (0x80004005) and E_ACCESSDENIED (0x80070005).
Codes == {UInt32(0, 0), UInt32(0, 1), UInt32(0, 5), UInt32(0, 183),
          UInt32(1, 16389), UInt32(1, 458757)}

\* std::optional<std::uint32_t>{}
Nothing == [none |-> TRUE]

Infos == {"StartTrace", "ProcessTrace"}

\* What the runtime answers while the failure is built: whether
\* error.message() is the message of std::error_code{}, and what
\* ::FormatMessageA returns (0: no system message found).
Lookups == [messageIsDefault : BOOLEAN, FormatMessageA : {0, 37}]

\* The message FormatMessageA leaves in errStr.
errStr == "system message"

Returned == [kind |-> "returned"]
Thrown(code, what) == [kind |-> "thrown", code |-> code, what |-> what]

\* The std::system_error both versions build and throw: the error_code of
\* static_cast<int>(hresult), and as its text errStr + additionalInfo when the
\* message looked unformatted and FormatMessageA found one, additionalInfo
\* alone otherwise.
Failure(hresult, additionalInfo, lookup) ==
    IF lookup.messageIsDefault /\ lookup.FormatMessageA # 0
    THEN Thrown(ToInt(hresult), <<errStr, additionalInfo>>)
    ELSE Thrown(ToInt(hresult), <<additionalInfo>>)

\* void VerifyHResult(hresult, additionalInfo, expectedGoodResult)
VerifyHResultOutcome(hresult, additionalInfo, expectedGoodResult, lookup) ==
    IF VerifyHResult(hresult, expectedGoodResult)
    THEN Returned
    ELSE Failure(hresult, additionalInfo, lookup)

\* The condition of the optional version:
\* expectedGoodResult && hresult != *expectedGoodResult || !SUCCEEDED(hresult)
OptionalRaises(hresult, expectedGoodResult) ==
    \/ (expectedGoodResult # Nothing /\ hresult # expectedGoodResult)
    \/ ~SUCCEEDED(hresult)

\* __declspec(noreturn) void VerifyHResult(hresult, additionalInfo,
\* std::optional<std::uint32_t> expectedGoodResult = {}).  When the condition
\* is false the function returns although it is declared noreturn: the caller
\* was compiled as if the call never came back, so what runs next is whatever
\* the build left after the call.
VerifyHResultOptionalOutcomes(hresult, additionalInfo, expectedGoodResult, lookup) ==
    IF OptionalRaises(hresult, expectedGoodResult)
    THEN {Failure(hresult, additionalInfo, lookup)}
    ELSE {Returned, [kind |-> "returned into unreachable code"]}

\* A direct call of the version with an expected good result.
CallVerifyHResult(h, info, e, lookup) ==
    /\ verified' = [fn |-> "VerifyHResult", hresult |-> h,
                    additionalInfo |-> info, expectedGoodResult |-> e,
                    lookup |-> lookup,
                    outcome |-> VerifyHResultOutcome(h, info, e, lookup)]
    /\ UNCHANGED <<variant, ndebug, sessionCap, pc, cur, sessionName,
                   outputFolder, providerId, sessionId, regHandle, Handle,
                   m_properties, members, thrown, raised, calls, sessions,
                   registrations, files, nextHandle, nextGuid, faults, block,
                   lifetime, m_impl, undefinedBehaviour>>

\* A direct call of the version with an optional expected good result.
CallVerifyHResultOptional(h, info, e, lookup) ==
    /\ \E o \in VerifyHResultOptionalOutcomes(h, info, e, lookup) :
          verified' = [fn |-> "VerifyHResult (optional)", hresult |-> h,
                       additionalInfo |-> info, expectedGoodResult |-> e,
                       lookup |-> lookup, outcome |-> o]
    /\ UNCHANGED <<variant, ndebug, sessionCap, pc, cur, sessionName,
                   outputFolder, providerId, sessionId, regHandle, Handle,
                   m_properties, members, thrown, raised, calls, sessions,
                   registrations, files, nextHandle, nextGuid, faults, block,
                   lifetime, m_impl, undefinedBehaviour>>

NextVerify ==
    \/ \E h \in Codes, info \in Infos, e \in Codes, lookup \in Lookups :
          CallVerifyHResult(h, info, e, lookup)
    \/ \E h \in Codes, info \in Infos, e \in Codes \cup {Nothing},
          lookup \in Lookups :
          CallVerifyHResultOptional(h, info, e, lookup)

SpecVerify == Init /\ [][NextVerify]_vars

Contains(what, text) == \E k \in 1..Len(what) : what[k] = text

\* C19: VerifyHResult with an expected good result (src/Log/MiniEtwLog.h)
\* returns normally if and only if the code equals the expected value; for
\* every other code it throws a failure that carries that code and whose text
\* contains the caller's diagnostic string, whether or not a system message
\* was looked up and found.
C19_VerifierReturnsIffExpected ==
    verified.fn = "VerifyHResult" =>
        /\ verified.outcome = Returned <=>
              verified.hresult = verified.expectedGoodResult
        /\ verified.outcome # Returned =>
              /\ verified.outcome.kind = "thrown"
              /\ ToUInt32(verified.outcome.code) = verified.hresult
              /\ Contains(verified.outcome.what, verified.additionalInfo)

C19_Witness ==
    /\ verified.fn = "VerifyHResult"
    /\ verified.hresult = UInt32(1, 16389)
    /\ verified.expectedGoodResult = UInt32(0, 0)
    /\ verified.lookup.messageIsDefault
    /\ verified.lookup.FormatMessageA = 0
    /\ verified.outcome.kind = "thrown"

\* C20 as claimed: VerifyHResult with an optional expected value
\* (src/unnamed/part_000) passes silently exactly when the code equals the
\* expected value if one is supplied, and exactly when the code is a success
\* code if none is supplied; a code equal to a supplied expected value never
\* raises.
C20_OptionalPassesIffExpected ==
    verified.fn = "VerifyHResult (optional)" =>
        /\ verified.expectedGoodResult # Nothing =>
              (verified.outcome.kind # "thrown" <=>
                  verified.hresult = verified.expectedGoodResult)
        /\ verified.expectedGoodResult = Nothing =>
              (verified.outcome.kind # "thrown" <=> SUCCEEDED(verified.hresult))

(***************************************************************************)
(* EventTracePropertiesWithBuffers built and mutated directly              *)
(***************************************************************************)

\* The requested values.
BufferSizes == {SizeT(0, 0), SizeT(0, 4), SizeT(0, 16384), SizeT(0, 16385),
                SizeT(1, 0), SizeT(1, 4)}

Paths == {Path(0, 97), Path(3, 98), Path(5, 99),
          Path(LogFilePathCapacity - 1, 100), Path(LogFilePathCapacity, 101),
          Path(LogFilePathCapacity + 1, 102)}

SessionIds == {1, 2}

\* The state of the directly used block: the fields and arrays (now), the
\* call made last with its arguments, and the fields and arrays before it.
Ran(op, args, before, now, state) ==
    [state |-> state, op |-> op, args |-> args, before |-> before, now |-> now]

\* The call of SetLogFilePath(logFilePath) that ends operation op on the
\* fields and arrays `fields`.  With the assert compiled in, a path that does
\* not fit aborts the process.  Otherwise (the path fits, or the assert is
\* compiled away) the copy runs, and past the end of the block it either lands
\* in the memory behind the block or stops the process.
CallSetLogFilePath(op, args, fields) ==
    \/ /\ ~ndebug
       /\ ~LogFilePathAccepted(args.logFilePath)
       /\ block' = Ran(op, args, fields, fields, "aborted")
       /\ ndebug' = ndebug
    \/ /\ ndebug' = (ndebug \/ ~LogFilePathAccepted(args.logFilePath))
       /\ \E outcome \in IF Size(args.logFilePath) <= LogFilePathCapacity
                         THEN {"built"}
                         ELSE {"built", "access violation"} :
             block' = Ran(op, args, fields,
                          SetLogFilePath(fields, args.logFilePath), outcome)

\* EventTracePropertiesWithBuffers(id, bufferSize, logFilePath)
NewProperties(id, bufferSize, logFilePath) ==
    /\ block.state = "none"
    /\ CallSetLogFilePath("EventTracePropertiesWithBuffers",
                          [sessionId |-> id, bufferSize |-> bufferSize,
                           logFilePath |-> logFilePath],
                          FieldsSet(id, bufferSize))
    /\ UNCHANGED <<variant, sessionCap, pc, cur, sessionName, outputFolder,
                   providerId, sessionId, regHandle, Handle, m_properties,
                   members, thrown, raised, calls, sessions, registrations,
                   files, nextHandle, nextGuid, faults, verified, lifetime,
                   m_impl, undefinedBehaviour>>

\* SetLogFilePath(logFilePath) on the block built before.
MutateLogFilePath(logFilePath) ==
    /\ block.state = "built"
    /\ CallSetLogFilePath("SetLogFilePath", [logFilePath |-> logFilePath],
                          block.now)
    /\ UNCHANGED <<variant, sessionCap, pc, cur, sessionName, outputFolder,
                   providerId, sessionId, regHandle, Handle, m_properties,
                   members, thrown, raised, calls, sessions, registrations,
                   files, nextHandle, nextGuid, faults, verified, lifetime,
                   m_impl, undefinedBehaviour>>

NextProperties ==
    \/ \E id \in SessionIds, bufferSize \in BufferSizes, logFilePath \in Paths :
          NewProperties(id, bufferSize, logFilePath)
    \/ \E logFilePath \in Paths : MutateLogFilePath(logFilePath)

SpecProperties == Init /\ [][NextProperties]_vars

Built(op) == block.state = "built" /\ block.op = op

\* p followed only by zero bytes, in an array of the given size.
Padded(p, size) == Bytes(p, Zeros(size - Size(p)))

\* C21: for every requested buffer size b, the buffer size stored in the
\* block is min(b, 16384): it lies in [0, 16384], equals b whenever
\* b <= 16384, and the conversion to the 32-bit field does not change the
\* clamped value.
C21_BufferSizeClamped ==
    block.state # "none" /\ block.op = "EventTracePropertiesWithBuffers" =>
        LET b == block.args.bufferSize
            stored == block.now.Properties.BufferSize
        IN  /\ stored.hi = 0
            /\ stored.lo \in 0..16384
            /\ (b.hi = 0 /\ b.lo <= 16384) => stored = b
            /\ ~(b.hi = 0 /\ b.lo <= 16384) => stored = SizeT(0, 16384)

C21_Witness ==
    /\ Built("EventTracePropertiesWithBuffers")
    /\ block.args.bufferSize = SizeT(1, 4)
    /\ block.now.Properties.BufferSize = SizeT(0, 16384)

\* C22 as claimed: a block freshly built with a path p of at most 1024 bytes
\* has its path array equal to p followed only by zero bytes, its name array
\* all zero, and the two recorded offsets equal to the byte offsets of the
\* name array and of the path array; a longer path is rejected by the
\* precondition check and never written.
C22_FreshBlock ==
    block.state # "none" /\ block.op = "EventTracePropertiesWithBuffers" =>
        LET p == block.args.logFilePath
        IN  /\ Size(p) <= 1024 =>
                  /\ block.state = "built"
                  /\ block.now.LogFilePath = Padded(p, 1024)
                  /\ block.now.SessionName = Zeros(256)
                  /\ block.now.Properties.LoggerNameOffset = SizeofProperties
                  /\ block.now.Properties.LogFileNameOffset =
                        SizeofProperties + 256
            /\ Size(p) > 1024 =>
                  /\ block.state = "aborted"
                  /\ block.now.LogFilePath = Zeros(1024)
                  /\ block.now.beyond = block.before.beyond

\* C23: SetLogFilePath changes only bytes of the path array: the buffer size,
\* the logging-mode flags, the identity, the two recorded offsets (every
\* field of Properties) and the name array are after the call what they were
\* before it, and so is the memory behind the block when the path fits.
C23_MutatorChangesOnlyThePath ==
    block.state # "none" /\ block.op = "SetLogFilePath" =>
        /\ block.now.Properties = block.before.Properties
        /\ block.now.SessionName = block.before.SessionName
        /\ LogFilePathAccepted(block.args.logFilePath) =>
              block.now.beyond = block.before.beyond

C23_Witness ==
    /\ Built("SetLogFilePath")
    /\ block.now.LogFilePath # block.before.LogFilePath
    /\ block.now.Properties.BufferSize = SizeT(0, 4)
    /\ block.now.Properties.Wnode.Guid = 2

\* C28 as claimed: after SetLogFilePath(p) on a block that already holds a
\* path q, the path array reads back as exactly p (p followed only by zero
\* bytes), for every p and q within capacity, including p shorter than q.
C28_PathReadsBack ==
    (/\ Built("SetLogFilePath")
     /\ Size(block.args.logFilePath) <= 1024
     /\ Size(CString(block.before.LogFilePath)) <= 1024)
    => block.now.LogFilePath = Padded(block.args.logFilePath, 1024)

\* C29 as claimed: every output path and every session name the capacity
\* precondition accepts leaves at least one zero byte inside its array (path
\* within 1024 bytes, name within 256 bytes), so the stored string never runs
\* to or past the end of its array.
C29_TerminatorKept ==
    /\ (/\ Built("EventTracePropertiesWithBuffers")
        /\ LogFilePathAccepted(block.args.logFilePath)) =>
          /\ Size(block.args.logFilePath) < 1024
          /\ Terminated(block.now.LogFilePath)
    /\ \A n \in Names : SessionNameAccepted(n) => strlen(n) < 256

\* C24: each successful enable call is matched by exactly one disable call,
\* issued when the EnabledProvider is destroyed (by the destructor of the
\* facade or by the unwinding of its failed construction), with the session
\* handle and the provider identity of the enable call; a failed enable call
\* gets no disable call; and when the disable call is issued the Session
\* whose handle it uses has not been destroyed yet (its own stop call comes
\* later) and the identity is the one still held by the facade.
C24_EnableDisablePaired ==
    \A i \in Facades :
        /\ Cardinality(At(i, "disable")) <= 1
        /\ \A d \in At(i, "disable") :
              /\ \E e \in Served_At(i, "enable") :
                    /\ e < d
                    /\ calls[i][d].handle = calls[i][e].handle
                    /\ calls[i][d].guid = calls[i][e].guid
              /\ calls[i][d].handle = Handle[i]
              /\ calls[i][d].guid = providerId[i]
              /\ \A s \in At(i, "stop") : d < s
              /\ pc[i] \in {"dtor", "unwind", "destroyed", "failed"}
        /\ (pc[i] \in {"destroyed", "failed"} /\ Served_At(i, "enable") # {}) =>
              At(i, "disable") # {}
        /\ (pc[i] \in {"dtor", "unwind"} /\ Served_At(i, "enable") # {}
              /\ At(i, "disable") = {}) =>
              /\ Last(members[i]) \in {"m_enabledProvider", "m_provider"}
              /\ \E k \in 1..Len(members[i]) : members[i][k] = "m_session"

C24_Witness ==
    \E i \in Facades, j \in Facades :
        /\ pc[i] = "destroyed"
        /\ Served_At(i, "enable") # {}
        /\ At(i, "disable") # {}
        /\ At(i, "stop") # {}
        /\ pc[j] = "failed"
        /\ At(j, "enable") # {}
        /\ Served_At(j, "enable") = {}
        /\ At(j, "disable") = {}

\* C26 as claimed: the session of a live facade stays live until that facade
\* itself is destroyed: no operation on another facade of the process, in
\* particular no construction, successful or failed, issues a stop call that
\* ends it.
C26_SessionLiveWhileFacadeLives ==
    /\ \A i \in Facades : pc[i] = "ready" => Handle[i] \in LiveHandles
    /\ [][\A i \in Facades :
             (pc[i] = "ready" /\ cur # 0 /\ cur # i /\ Handle[i] \in LiveHandles)
                => Handle[i] \in LiveHandles']_vars

\* C27 as claimed: every start call of a facade, the retried one on the
\* stop-and-retry path included, is made with a block whose output path,
\* buffer size, logging-mode flags and identity are those the caller
\* requested: nothing between the first and the second start call changes the
\* block, whatever the stop call of the colliding session writes into it.
C27_RetryStartsWhatWasRequested ==
    \A i \in Facades :
        \A k \in At(i, "StartTraceA") :
            LET b == calls[i][k].properties
            IN  /\ CString(b.LogFilePath) = LogFileName(outputFolder[i])
                /\ b.Properties.BufferSize = StoredBufferSize(RequestedBufferSize)
                /\ b.Properties.LogFileMode = LogFileMode
                /\ b.Properties.Wnode.Guid = SessionGuid(i)
                /\ k > Min(At(i, "StartTraceA")) =>
                      b = calls[i][Min(At(i, "StartTraceA"))].properties

(***************************************************************************)
(* Moves of MiniLog objects.  MiniLog(MiniLog&&) and operator=(MiniLog&&)  *)
(* are defaulted: they are the move operations of std::unique_ptr<Impl>.   *)
(* The build is the one of MiniEtwLog.h; the steps of an Impl are those of *)
(* Spec.                                                                   *)
(***************************************************************************)
MaxMoveFaults == 1
MoveNames == {"Mini logger", "Mini logger0"}
MovePayloads == {Span(1, SizeT(0, 12))}

\* What the steps of the MiniLog objects themselves leave alone.
impl == <<ndebug, sessionName, outputFolder, providerId, sessionId, regHandle,
          Handle, m_properties, members, thrown, raised, registrations,
          files, nextHandle, nextGuid, faults>>
build == <<variant, sessionCap, verified, block>>

\* Mutant of Moved: the source keeps its pointer.
Copied(m, to, from) == [m EXCEPT ![to] = m[from]]

\* unique_ptr(unique_ptr&& u) and operator=(unique_ptr&& u), reset(u.release()):
\* the target takes the source's pointer and the source is left empty; moving
\* an object onto itself changes nothing.
Moved(m, to, from) ==
    IF to = from THEN m ELSE [m EXCEPT ![to] = m[from], ![from] = nullptr]

\* MiniLog::MiniLog(sessionName, outputFolder, bufferSize) ends:
\* m_impl{std::make_unique<Impl>(...)} owns the Impl just constructed.
MiniLogConstructed(i) ==
    /\ cur = 0
    /\ pc[i] = "ready"
    /\ lifetime[i] = "none"
    /\ lifetime' = [lifetime EXCEPT ![i] = "live"]
    /\ m_impl' = [m_impl EXCEPT ![i] = i]
    /\ UNCHANGED <<build, impl, pc, cur, calls, sessions, undefinedBehaviour>>

\* MiniLog::MiniLog(MiniLog&&): object o is made from object from.
MoveConstruct(o, from) ==
    /\ cur = 0
    /\ lifetime[o] = "none"
    /\ lifetime[from] = "live"
    /\ lifetime' = [lifetime EXCEPT ![o] = "live"]
    /\ m_impl' = Moved(m_impl, o, from)
    /\ UNCHANGED <<build, impl, pc, cur, calls, sessions, undefinedBehaviour>>

\* MiniLog::operator=(MiniLog&&): the target takes the source's pointer, then
\* the Impl the target owned before is deleted.
MoveAssign(to, from) ==
    /\ cur = 0
    /\ lifetime[to] = "live"
    /\ lifetime[from] = "live"
    /\ m_impl' = Moved(m_impl, to, from)
    /\ IF to # from /\ m_impl[to] # nullptr
       THEN Delete(m_impl[to])
       ELSE UNCHANGED <<pc, cur, calls>>
    /\ UNCHANGED <<build, impl, lifetime, sessions, undefinedBehaviour>>

\* MiniLog::~MiniLog on object o: the unique_ptr deletes the Impl it owns, if
\* it owns one.
DestroyObject(o) ==
    /\ cur = 0
    /\ lifetime[o] = "live"
    /\ lifetime' = [lifetime EXCEPT ![o] = "destroyed"]
    /\ m_impl' = [m_impl EXCEPT ![o] = nullptr]
    /\ IF m_impl[o] # nullptr
       THEN Delete(m_impl[o])
       ELSE UNCHANGED <<pc, cur, calls>>
    /\ UNCHANGED <<build, impl, sessions, undefinedBehaviour>>

\* MiniLog::operator() on an object that owns an Impl: m_impl->Write(message).
Emit(o, message) ==
    /\ lifetime[o] = "live"
    /\ m_impl[o] # nullptr
    /\ Write(m_impl[o], message)

\* MiniLog::operator() on an object whose m_impl is empty:
\* m_impl->Write(message) dereferences a null pointer, which is undefined.  Either the read of
\* m_provider.Handle through it is an access violation and the process ends
\* inside the call, or it yields an indeterminate REGHANDLE that ::EventWrite
\* is called with.
EmitOnEmpty(o, message) ==
    /\ cur = 0
    /\ lifetime[o] = "live"
    /\ m_impl[o] = nullptr
    /\ undefinedBehaviour = NoUndefinedBehaviour
    /\ \/ /\ undefinedBehaviour' =
                [op |-> "operator()", object |-> o,
                 outcome |-> "access violation"]
          /\ cur' = o
          /\ UNCHANGED sessions
       \/ \E h \in 0..(nextHandle - 1) :
             /\ undefinedBehaviour' =
                   [op |-> "operator()", object |-> o, outcome |-> "EventWrite"]
             /\ cur' = cur
             /\ IF h \in DOMAIN registrations
                THEN sessions' = Delivered(h, EventDataDescCreate(message))
                ELSE UNCHANGED sessions
    /\ UNCHANGED <<build, impl, pc, calls, lifetime, m_impl>>

NextMove ==
    \/ \E i \in Facades, n \in MoveNames :
          \E f \in FoldersFor(i) : Construct(i, n, f)
    \/ \E i \in Facades : MakeGuid(i)
    \/ \E i \in Facades : EventRegister(i)
    \/ \E i \in Facades : MakeDirectories(i)
    \/ \E i \in Facades : StartTraceA(i)
    \/ \E i \in Facades : DestroySessionByName(i)
    \/ \E i \in Facades : EnableProvider(i)
    \/ \E i \in Facades : MiniLogConstructed(i)
    \/ \E o \in Movers, from \in Objects : MoveConstruct(o, from)
    \/ \E to \in Objects, from \in Objects : MoveAssign(to, from)
    \/ \E o \in Objects, message \in MovePayloads : Emit(o, message)
    \/ \E o \in Objects, message \in MovePayloads : EmitOnEmpty(o, message)
    \/ \E o \in Objects : DestroyObject(o)
    \/ \E i \in Facades : DisableProvider(i)
    \/ \E i \in Facades : DestroySession(i)
    \/ \E i \in Facades : EventUnregister(i)

\* The build of MiniEtwLog.h, no session left behind, the cap at its highest;
\* the platform refuses MaxMoveFaults calls at most.
InitMove ==
    /\ InitAfter(MaxFaults - MaxMoveFaults)
    /\ variant = "registerFirst"
    /\ sessionCap = MaxSessionCap
    /\ LiveHandles = {}

SpecMove == InitMove /\ [][NextMove]_vars

\* The live objects that own Impl i.
Owners(i) == {o \in Objects : lifetime[o] = "live" /\ m_impl[o] = i}

ReleaseOrder == <<"disable", "stop", "EventUnregister">>

\* C25: over any sequence of move-constructions, move-assignments and
\* destructions of MiniLog objects, every acquired triple is released exactly
\* once: an Impl has one owner from the end of its constructor until its
\* release begins and none after; its release runs to its end without another
\* operation in between and issues disable, stop, unregister once each in that
\* order; destroying a moved-from object issues no platform call; an object
\* stops owning an Impl only by handing it to another object or by beginning
\* its release, as move-assigning onto a live object does.
C25_MovedTripleReleasedOnce ==
    /\ [](\A i \in Facades :
             LET issued == Kinds(TeardownCalls(i))
             IN  /\ Cardinality(Owners(i)) <= 1
                 /\ Owners(i) # {} => pc[i] = "ready" /\ issued = <<>>
                 /\ (pc[i] = "ready" /\ lifetime[i] # "none") => Owners(i) # {}
                 /\ pc[i] = "dtor" =>
                       /\ cur = i
                       /\ Len(issued) < Len(ReleaseOrder)
                       /\ issued = SubSeq(ReleaseOrder, 1, Len(issued))
                 /\ pc[i] = "destroyed" => issued = ReleaseOrder
                 /\ pc[i] # "terminated")
    /\ [][\A o \in Objects :
             /\ (/\ lifetime[o] = "live"
                 /\ m_impl[o] = nullptr
                 /\ lifetime'[o] = "destroyed") => calls' = calls
             /\ (/\ lifetime[o] = "live"
                 /\ m_impl[o] # nullptr
                 /\ m_impl'[o] # m_impl[o]) =>
                    \/ Owners(m_impl[o])' # {}
                    \/ pc'[m_impl[o]] = "dtor"]_vars

\* Object 1 was moved from; the object made from it has been destroyed and
\* has released the triple, in order, while object 1, empty, still lives.
C25_Witness ==
    /\ pc[1] = "destroyed"
    /\ Kinds(TeardownCalls(1)) = ReleaseOrder
    /\ lifetime[1] = "live"
    /\ m_impl[1] = nullptr
    /\ pc[2] = "none"
    /\ \E o \in Movers : lifetime[o] = "destroyed"

\* C30 as claimed: in every sequence of construct, move, emit and destroy
\* operations, emit is never executed against an empty m_impl, and each emit
\* is executed on an object whose Impl holds a live registration, a live
\* session and the enablement of its provider in it.
C30_EmitOnlyOnLiveTriple ==
    /\ [](undefinedBehaviour = NoUndefinedBehaviour)
    /\ [][\A i \in Facades :
             Len(Writes(i))' > Len(Writes(i)) =>
                /\ regHandle[i] \in DOMAIN registrations
                /\ Handle[i] \in LiveHandles
                /\ providerId[i] \in sessions[Handle[i]].enabled]_vars

====
